---- MODULE Spec2Model ----
(***************************************************************************)
(* vanilla-charts: the tick generator (core/ticks.js), the linear and band *)
(* scales (core/scales.js), the responsive chart wrapper                   *)
(* (core/ChartWrapper.js) with its 100 ms resize debounce, the legend      *)
(* block, and the render of the bar, line and pie charts.                  *)
(*                                                                         *)
(* JavaScript numbers are modelled as exact rationals <<n, d>> in lowest   *)
(* terms with d > 0; d = 0 encodes the non-finite values: <<0,0>> is NaN,  *)
(* <<1,0>> is +Infinity and <<-1,0>> is -Infinity.  Pixel widths and       *)
(* milliseconds of the wrapper are plain integers.                         *)
(***************************************************************************)
EXTENDS Integers, Sequences, FiniteSets, TLC

VARIABLES
    \* ---- chart wrapper (createChartWrapper closure state) ----
    opts,            \* the options the wrapper was constructed with
    currentWidth,    \* let currentWidth
    resizeTimer,     \* let resizeTimer: 0 is null, else the last timer handle
    timers,          \* the host's timer table: handle -> ms left, -1 = not pending
    observing,       \* the ResizeObserver is connected to the wrapper element
    destroyed,       \* destroy() has returned
    lastDraw,        \* the arguments of the latest render() callback invocation
    \* ---- observation of the run (history) ----
    lastOp,          \* the operation that made the latest step
    opDraws,         \* render() invocations made by the latest step
    sinceNotify,     \* ms since the latest resize notification (saturates at DebounceMs)
    lastNotified,    \* raw width carried by the latest resize notification (-1: none yet)
    burst,           \* "none" | "open" | "void": the burst of notifications under way
    burstNotes,      \* notifications of the burst so far (saturating)
    burstDraws,      \* render() invocations since the burst began (saturating)
    windowDraws,     \* render() invocations since the pending timer was scheduled (saturating)
    supersededDrawn, \* a width rendered inside its debounce window was then superseded
    \* ---- pure functions under test ----
    tk,              \* makeTicks call: inputs and result
    sc,              \* linearScale call: inputs and result
    bd,              \* bandScale call: inputs and result
    \* ---- a chart built on the wrapper (create*Chart closure state) ----
    ch,              \* props, currentData and the shapes of the drawing group
    \* ---- a pie chart (createPieChart closure state) ----
    pie,             \* props, currentData, currentWidth, container and svg content
    \* ---- a container a wrapper is constructed on ----
    mt               \* its element tree before and after createChartWrapper

wvars == <<opts, currentWidth, resizeTimer, timers, observing, destroyed, lastDraw,
           lastOp, opDraws, sinceNotify, lastNotified, burst, burstNotes,
           burstDraws, windowDraws, supersededDrawn>>
vars == <<opts, currentWidth, resizeTimer, timers, observing, destroyed, lastDraw,
          lastOp, opDraws, sinceNotify, lastNotified, burst, burstNotes,
          burstDraws, windowDraws, supersededDrawn, tk, sc, bd, ch, pie, mt>>

----------------------------------------------------------------------------
(* Bounds of the model *)

\* numerators of the rational inputs range over -MaxNum..MaxNum
MaxNum == 3
\* denominators of the rational inputs range over 1..MaxDen
MaxDen == 2
\* timer handles the host can have pending at once
MaxTimers == 2
\* saturation point of the draw counters of the history
MaxCount == 2

----------------------------------------------------------------------------
(* Exact rational arithmetic standing for JavaScript number arithmetic *)

Abs(n) == IF n < 0 THEN -n ELSE n
Sign(n) == IF n > 0 THEN 1 ELSE IF n < 0 THEN -1 ELSE 0

RECURSIVE GCD(_, _)
GCD(a, b) == IF b = 0 THEN a ELSE GCD(b, a % b)

NaN == <<0, 0>>

Rat(n, d) ==
    IF d = 0 THEN <<Sign(n), 0>>
    ELSE LET g == GCD(Abs(n), Abs(d))
         IN  <<(Sign(d) * n) \div g, Abs(d) \div g>>

Num(n) == <<n, 1>>
IsFinite(x) == x[2] # 0
IsNaN(x) == x = NaN

RNeg(x) == <<-x[1], x[2]>>

RAdd(a, b) ==
    IF IsFinite(a) /\ IsFinite(b) THEN Rat(a[1] * b[2] + b[1] * a[2], a[2] * b[2])
    ELSE IF IsNaN(a) \/ IsNaN(b) THEN NaN
    ELSE IF ~IsFinite(a) /\ ~IsFinite(b) THEN (IF a = b THEN a ELSE NaN)
    ELSE IF IsFinite(a) THEN b ELSE a

RSub(a, b) == RAdd(a, RNeg(b))

RMul(a, b) ==
    IF IsFinite(a) /\ IsFinite(b) THEN Rat(a[1] * b[1], a[2] * b[2])
    ELSE IF IsNaN(a) \/ IsNaN(b) THEN NaN
    ELSE <<Sign(a[1]) * Sign(b[1]), 0>>

\* x / 0 is +-Infinity, 0 / 0 is NaN, Infinity / Infinity is NaN
RDiv(a, b) ==
    IF IsFinite(a) /\ IsFinite(b)
    THEN (IF b[1] = 0 THEN <<Sign(a[1]), 0>>
          ELSE Rat(a[1] * b[2] * Sign(b[1]), a[2] * Abs(b[1])))
    ELSE IF IsNaN(a) \/ IsNaN(b) THEN NaN
    ELSE IF ~IsFinite(a) /\ ~IsFinite(b) THEN NaN
    ELSE IF IsFinite(a) THEN Num(0)
    ELSE <<Sign(a[1]) * (IF b[1] < 0 THEN -1 ELSE 1), 0>>

\* comparisons with NaN are false, as in JavaScript
RLess(a, b) ==
    IF IsNaN(a) \/ IsNaN(b) THEN FALSE
    ELSE IF IsFinite(a) /\ IsFinite(b) THEN a[1] * b[2] < b[1] * a[2]
    ELSE IF ~IsFinite(a) /\ ~IsFinite(b) THEN a[1] < b[1]
    ELSE IF IsFinite(a) THEN b[1] > 0 ELSE a[1] < 0

RLeq(a, b) == ~IsNaN(a) /\ ~IsNaN(b) /\ (a = b \/ RLess(a, b))

\* Math.floor, Math.ceil, Math.round (round half up), Math.max
MathFloor(x) == IF IsFinite(x) THEN Num(x[1] \div x[2]) ELSE x
MathCeil(x) == IF IsFinite(x) THEN Num(-((-x[1]) \div x[2])) ELSE x
MathRound(x) == MathFloor(RAdd(x, Rat(1, 2)))
MathMax(a, b) == IF IsNaN(a) \/ IsNaN(b) THEN NaN ELSE IF RLess(a, b) THEN b ELSE a

\* the finite rational inputs of the pure functions
Nums == {Rat(n, d) : n \in (-MaxNum)..MaxNum, d \in 1..MaxDen}

----------------------------------------------------------------------------
(* core/ticks.js *)

\* A tick policy value (the third argument of makeTicks):
\*   kind "undefined"                      no policy given
\*   kind "array"                          an explicit list
\*   kind "object"                         an object; hasStep / hasCount say which keys it carries
\*   kind "number" | "string" | "boolean"  a primitive; truthy says whether !ticks is false
Policy(kind, truthy, list, hasStep, step, hasCount, count) ==
    [kind |-> kind, truthy |-> truthy, list |-> list,
     hasStep |-> hasStep, step |-> step, hasCount |-> hasCount, count |-> count]

PolicyNums == {Rat(n, d) : n \in 0..MaxNum, d \in 1..MaxDen}

TickPolicies ==
    {Policy("undefined", FALSE, <<>>, FALSE, Num(0), FALSE, Num(0))}
    \cup {Policy("array", TRUE, l, FALSE, Num(0), FALSE, Num(0)) :
            l \in {<<>>, <<Num(1)>>, <<Num(0), Num(1)>>, <<Num(-MaxNum), Num(0), Num(MaxNum)>>}}
    \cup {Policy("object", TRUE, <<>>, TRUE, st, FALSE, Num(0)) : st \in PolicyNums}
    \cup {Policy("object", TRUE, <<>>, FALSE, Num(0), TRUE, c) : c \in PolicyNums}
    \cup {Policy("object", TRUE, <<>>, TRUE, Num(1), TRUE, Num(2))}
    \cup {Policy("object", TRUE, <<>>, FALSE, Num(0), FALSE, Num(0))}
    \cup {Policy(k, t, <<>>, FALSE, Num(0), FALSE, Num(0)) :
            k \in {"number", "string", "boolean"}, t \in BOOLEAN}

\* the result of a call: the returned array, or a thrown TypeError
Returned(arr) == [threw |-> FALSE, arr |-> arr]
Threw == [threw |-> TRUE, arr |-> <<>>]

\* for (let v = start; v <= yMax; v += step) arr.push(v)
RECURSIVE stepLoop(_, _, _, _)
stepLoop(v, yMax, step, arr) ==
    IF RLeq(v, yMax) THEN stepLoop(RAdd(v, step), yMax, step, Append(arr, v)) ELSE arr

\* the branch taken without the two endpoint insertions
stepTicksNoEndpoints(yMin, yMax, ticksStep) ==
    LET step == MathMax(Num(1), ticksStep)
        start == RMul(MathCeil(RDiv(yMin, step)), step)
    IN  stepLoop(start, yMax, step, <<>>)

\* if ("step" in ticks) { ... }
stepTicks(yMin, yMax, ticksStep) ==
    LET step == MathMax(Num(1), ticksStep)
        start == RMul(MathCeil(RDiv(yMin, step)), step)
        arr0 == stepLoop(start, yMax, step, <<>>)
        \* arr[0] of an empty array is undefined, which !== yMin
        arr1 == IF arr0 = <<>> \/ arr0[1] # yMin THEN <<yMin>> \o arr0 ELSE arr0
        arr2 == IF arr1[Len(arr1)] # yMax THEN Append(arr1, yMax) ELSE arr1
    IN  arr2

\* if ("count" in ticks) { ... }
countTicks(yMin, yMax, ticksCount) ==
    LET count == MathMax(Num(1), MathFloor(ticksCount))
        n == count[1]
    IN  [j \in 1..(n + 1) |->
            MathRound(RAdd(yMin, RDiv(RMul(RSub(yMax, yMin), Num(j - 1)), count)))]

\* makeTicks with the "in" operator applied to any truthy policy as if it were an object
makeTicksLenient(yMin, yMax, ticks) ==
    IF ticks.kind = "undefined" \/ ~ticks.truthy
    THEN Returned(<<yMin, MathRound(RDiv(RAdd(yMin, yMax), Num(2))), yMax>>)
    ELSE IF ticks.kind = "array" THEN Returned(ticks.list)
    ELSE IF ticks.hasStep THEN Returned(stepTicks(yMin, yMax, ticks.step))
    ELSE IF ticks.hasCount THEN Returned(countTicks(yMin, yMax, ticks.count))
    ELSE Returned(<<yMin, yMax>>)

makeTicks(yMin, yMax, ticks) ==
    IF ticks.kind = "undefined" \/ ~ticks.truthy
    THEN Returned(<<yMin, MathRound(RDiv(RAdd(yMin, yMax), Num(2))), yMax>>)
    ELSE IF ticks.kind = "array" THEN Returned(ticks.list)
    \* "step" in ticks: the in operator throws a TypeError unless ticks is an object
    ELSE IF ticks.kind # "object" THEN Threw
    ELSE IF ticks.hasStep THEN Returned(stepTicks(yMin, yMax, ticks.step))
    ELSE IF ticks.hasCount THEN Returned(countTicks(yMin, yMax, ticks.count))
    ELSE Returned(<<yMin, yMax>>)

----------------------------------------------------------------------------
(* core/scales.js *)

\* linearScale without the "|| 1" guard of the domain span
linearScaleUnguarded(dMin, dMax, rMin, rMax, v) ==
    LET d == RSub(dMax, dMin)
        r == RSub(rMax, rMin)
    IN  RAdd(rMin, RMul(RDiv(RSub(v, dMin), d), r))

\* linearScale measuring v from the origin instead of from dMin
linearScaleNoOffset(dMin, dMax, rMin, rMax, v) ==
    LET span == RSub(dMax, dMin)
        d == IF span = Num(0) \/ IsNaN(span) THEN Num(1) ELSE span
        r == RSub(rMax, rMin)
    IN  RAdd(rMin, RMul(RDiv(v, d), r))

\* linearScale(dMin, dMax, rMin, rMax)(v)
linearScale(dMin, dMax, rMin, rMax, v) ==
    LET span == RSub(dMax, dMin)
        \* dMax - dMin || 1: 0 and NaN are falsy
        d == IF span = Num(0) \/ IsNaN(span) THEN Num(1) ELSE span
        r == RSub(rMax, rMin)
    IN  RAdd(rMin, RMul(RDiv(RSub(v, dMin), d), r))

\* range coordinates (pixels) handed to linearScale
RangeVals == {Num(0), Num(50), Num(200)}


\* labels of the categories handed to bandScale
MaxLabels == 2
LabelNames == {"a", "b", "c"}
LabelSeqs == UNION {[1..n -> LabelNames] : n \in 0..MaxLabels}
GapRatios == {Num(0), Rat(1, 5), Rat(1, 2), Rat(9, 10), Num(1), Rat(3, 2), Rat(-1, 2)}
BandRangeVals == {Num(0), Num(10), Num(100)}

\* totalGap / n: the two edge gaps forgotten
gapWidthInnerOnly(totalGap, n) == RDiv(totalGap, Num(n))

\* const gapWidth = totalGap / (n + 1)
gapWidthOf(totalGap, n) == RDiv(totalGap, Num(n + 1))

\* the band's leading edge without the gaps before it
bandPositionNoGaps(offset, i, barWidth, gapWidth) == RAdd(offset, RMul(Num(i), barWidth))

\* offset + i * (barWidth + gapWidth), i counted from 0
bandPosition(offset, i, barWidth, gapWidth) ==
    RAdd(offset, RMul(Num(i), RAdd(barWidth, gapWidth)))

\* bandScale(labels, rMin, rMax, gapRatio): bandWidth, gapWidth and the Map
\* behind getX (a label given twice keeps the position of its last entry)
bandScale(labels, rMin, rMax, gapRatio) ==
    LET n == IF Len(labels) > 1 THEN Len(labels) ELSE 1
        total == RSub(rMax, rMin)
        totalGap == RMul(total, gapRatio)
        gapWidth == gapWidthOf(totalGap, n)
        barWidth == RDiv(RSub(total, totalGap), Num(n))
        offset == RAdd(rMin, gapWidth)
        last(lab) == CHOOSE i \in 1..Len(labels) :
                        labels[i] = lab /\ \A j \in (i + 1)..Len(labels) : labels[j] # lab
    IN  [bandWidth |-> barWidth,
         gapWidth |-> gapWidth,
         map |-> [lab \in {labels[i] : i \in 1..Len(labels)} |->
                     bandPosition(offset, last(lab) - 1, barWidth, gapWidth)]]

\* getX: (lab) => map.get(lab) ?? 0
getX(band, lab) == IF lab \in DOMAIN band.map THEN band.map[lab] ELSE Num(0)

----------------------------------------------------------------------------
(* core/Legend.js and the legend block of the grouped charts and the pie *)

\* the legend option after destructuring: hasShow / hasPosition say which keys
\* the object carries; an undefined option takes the parameter default
LegendDefault == [hasShow |-> TRUE, show |-> TRUE, hasPosition |-> TRUE, position |-> "top"]
LegendOptions ==
    {LegendDefault,
     [hasShow |-> TRUE, show |-> FALSE, hasPosition |-> FALSE, position |-> ""],
     [hasShow |-> FALSE, show |-> FALSE, hasPosition |-> TRUE, position |-> "right"],
     [hasShow |-> TRUE, show |-> TRUE, hasPosition |-> TRUE, position |-> "right"]}

\* if (legend?.show)
legendShown(l) == l.hasShow /\ l.show

\* legend.position ?? "top" (the pie: legend.position || "top")
legendPosition(l) == IF l.hasPosition THEN l.position ELSE "top"

\* the children of the container: the tooltip div, the div that wraps the
\* svg, and legend divs with their position class and their items
TooltipEl == [el |-> "tooltip", position |-> "", items |-> <<>>]
WrapperEl == [el |-> "wrapper", position |-> "", items |-> <<>>]

\* renderLegend(null, { seriesOrder, ..., position }): the element it returns
renderLegend(seriesOrder, position) ==
    [el |-> "legend", position |-> position, items |-> seriesOrder]

\* the block with the removal of the existing legends left out
withoutLegendsKept(container) == container

\* container.querySelectorAll(".chart-legend").forEach((el) => el.remove())
withoutLegends(container) == SelectSeq(container, LAMBDA e : e.el # "legend")

\* container.insertBefore(legendEl, svgWrapper), svgWrapper being
\* container.querySelector("div:not(.chart-tooltip)"); appendChild when there is none
insertLegend(container, legendEl) ==
    LET divs == {k \in 1..Len(container) : container[k].el # "tooltip"}
    IN  IF divs = {} THEN Append(container, legendEl)
        ELSE LET k == CHOOSE i \in divs : \A j \in divs : i <= j
             IN  SubSeq(container, 1, k - 1) \o <<legendEl>> \o SubSeq(container, k, Len(container))

\* the legend block of a render: if (legend?.show) { ... } else { ... }
legendBlock(container, l, seriesOrder) ==
    IF legendShown(l)
    THEN insertLegend(withoutLegends(container), renderLegend(seriesOrder, legendPosition(l)))
    ELSE withoutLegends(container)

----------------------------------------------------------------------------
(* BarChart.js, BarGroupChart.js, LineChart.js, LineGroupChart.js: render *)

\* rows a data set can have at most
MaxRows == 2

PosInf == <<1, 0>>
NegInf == <<-1, 0>>

\* a === b on numbers: NaN equals nothing
StrictEq(a, b) == ~IsNaN(a) /\ ~IsNaN(b) /\ a = b
MathMin(a, b) == IF IsNaN(a) \/ IsNaN(b) THEN NaN ELSE IF RLess(b, a) THEN b ELSE a
MathAbs(x) == <<Abs(x[1]), x[2]>>

\* Math.max(...values, 0)
RECURSIVE MathMaxAll(_)
MathMaxAll(values) ==
    IF values = <<>> THEN Num(0) ELSE MathMax(Head(values), MathMaxAll(Tail(values)))

RECURSIVE flatten(_)
flatten(seqs) == IF seqs = <<>> THEN <<>> ELSE Head(seqs) \o flatten(Tail(seqs))

\* Array.from(new Set(seq)): first occurrences, in order
uniq(seq) ==
    LET firsts == {i \in 1..Len(seq) : \A j \in 1..(i - 1) : seq[j] # seq[i]}
    IN  [k \in 1..Cardinality(firsts) |->
            seq[CHOOSE i \in firsts : Cardinality({j \in firsts : j <= i}) = k]]

\* the labels of the rows of a data set, in row order
RowLabels == <<"a", "b", "c", "d">>

\* BarDatum / LineDatum: { label, value }; the values of the rows repeat one of
\* these patterns
SingleValues ==
    {<<Num(5), Num(2)>>, <<Num(0)>>, <<Num(-3)>>, <<NaN, Num(5)>>, <<PosInf, Num(2)>>,
     <<NegInf, Num(5)>>}

\* GroupBarDatum / GroupLineDatum: { label, values }, values listed as
\* <<key, value>> in the order Object.keys reports them
GroupValues ==
    {<< <<<<"s", Num(5)>>, <<"t", Num(2)>>>>, <<<<"t", Num(4)>>>> >>,
     << <<<<"s", Num(-3)>>, <<"t", Num(0)>>>> >>,
     << <<<<"t", NaN>>>>, <<<<"s", Num(5)>>>> >>,
     << <<>> >>}

Grouped(kind) == kind \in {"barGroup", "lineGroup"}

\* the data set of n rows whose values follow pattern
rowsOf(kind, pattern, n) ==
    [i \in 1..n |->
        IF Grouped(kind)
        THEN [label |-> RowLabels[i], values |-> pattern[((i - 1) % Len(pattern)) + 1]]
        ELSE [label |-> RowLabels[i], value |-> pattern[((i - 1) % Len(pattern)) + 1]]]

DataSets(kind) ==
    {rowsOf(kind, pattern, n) :
        pattern \in (IF Grouped(kind) THEN GroupValues ELSE SingleValues), n \in 0..MaxRows}

\* valueAxis?.min, valueAxis?.max: given or undefined
ValueAxes ==
    {[hasMin |-> FALSE, min |-> Num(0), hasMax |-> FALSE, max |-> Num(0)],
     [hasMin |-> TRUE, min |-> Num(10), hasMax |-> FALSE, max |-> Num(0)],
     [hasMin |-> TRUE, min |-> Num(2), hasMax |-> FALSE, max |-> Num(0)],
     [hasMin |-> FALSE, min |-> Num(0), hasMax |-> TRUE, max |-> Num(2)],
     [hasMin |-> TRUE, min |-> Num(2), hasMax |-> TRUE, max |-> Num(2)]}

\* the props of a chart: kind names the factory; categoryGap and seriesGap are
\* left at their default 0.2, seriesOrder is undefined
ChartProps ==
    [kind : {"bar", "barGroup"}, orientation : {"vertical", "horizontal"},
     categoryGap : {Rat(1, 5)}, seriesGap : {Rat(1, 5)}, valueAxis : ValueAxes,
     legend : {LegendDefault}]
    \cup
    [kind : {"line", "lineGroup"}, orientation : {"vertical"},
     categoryGap : {Rat(1, 5)}, seriesGap : {Rat(1, 5)}, valueAxis : ValueAxes,
     legend : {LegendDefault}]

\* the props of the grouped charts with every form of the legend option
LegendChartProps ==
    [kind : {"barGroup", "lineGroup"}, orientation : {"vertical"},
     categoryGap : {Rat(1, 5)}, seriesGap : {Rat(1, 5)},
     valueAxis : {[hasMin |-> FALSE, min |-> Num(0), hasMax |-> FALSE, max |-> Num(0)]},
     legend : LegendOptions]

\* no chart: the wrapper is used with a render callback that is not modelled
ChNone == [kind |-> "none"]

\* d.values[key] ?? 0
valueAt(d, key) ==
    LET at == {i \in 1..Len(d.values) : d.values[i][1] = key}
    IN  IF at = {} THEN Num(0) ELSE d.values[CHOOSE i \in at : TRUE][2]

\* seriesOrder ?? Array.from(new Set(currentData.flatMap((d) => Object.keys(d.values))))
inferredKeys(data) ==
    uniq(flatten([i \in 1..Len(data) |->
                     [j \in 1..Len(data[i].values) |-> data[i].values[j][1]]]))

\* the values dataMax is taken over
domainValues(kind, data) ==
    CASE kind = "bar" -> [i \in 1..Len(data) |-> data[i].value]
      [] kind = "line" -> [i \in 1..Len(data) |-> MathMax(Num(0), data[i].value)]
      [] OTHER -> flatten([i \in 1..Len(data) |->
                              [j \in 1..Len(inferredKeys(data)) |->
                                  valueAt(data[i], inferredKeys(data)[j])]])

\* vMin = valueAxis?.min ?? 0; vMaxRaw = valueAxis?.max ?? dataMax;
\* vMax = vMaxRaw === vMin ? vMin + 1 : vMaxRaw
valueDomain(c, data) ==
    LET values == domainValues(c.kind, data)
        dataMax == IF Len(values) > 0 THEN MathMaxAll(values) ELSE Num(0)
        vMin == IF c.valueAxis.hasMin THEN c.valueAxis.min ELSE Num(0)
        vMaxRaw == IF c.valueAxis.hasMax THEN c.valueAxis.max ELSE dataMax
    IN  [vMin |-> vMin,
         vMax |-> IF StrictEq(vMaxRaw, vMin) THEN RAdd(vMin, Num(1)) ELSE vMaxRaw]

\* the attributes of one <rect class="bar">: base is the leading edge of its
\* band, bandWidth its thickness, val the clamped value
barRect(c, dom, base, bandWidth, val, innerWidth, innerHeight) ==
    IF c.orientation = "vertical"
    THEN LET y1 == linearScale(dom.vMin, dom.vMax, innerHeight, Num(0), val)
         IN  [tag |-> "rect", x |-> base, y |-> y1, width |-> bandWidth,
              height |-> RSub(innerHeight, y1)]
    ELSE LET x0 == linearScale(dom.vMin, dom.vMax, Num(0), innerWidth, Num(0))
             x1 == linearScale(dom.vMin, dom.vMax, Num(0), innerWidth, val)
         IN  [tag |-> "rect", x |-> MathMin(x0, x1), y |-> base,
              width |-> MathAbs(RSub(x1, x0)), height |-> bandWidth]

\* createBarChart render: one rect per datum
barShapes(c, data, dom, innerWidth, innerHeight) ==
    LET labels == [i \in 1..Len(data) |-> data[i].label]
        band == bandScale(labels, Num(0),
                          IF c.orientation = "vertical" THEN innerWidth ELSE innerHeight,
                          c.categoryGap)
    IN  [i \in 1..Len(data) |->
            barRect(c, dom, getX(band, data[i].label), band.bandWidth,
                    MathMax(Num(0), data[i].value), innerWidth, innerHeight)]

\* createBarGroupChart render: for every datum, one rect per series key
barGroupShapes(c, data, dom, innerWidth, innerHeight) ==
    LET labels == [i \in 1..Len(data) |-> data[i].label]
        keys == inferredKeys(data)
        outer == bandScale(labels, Num(0),
                           IF c.orientation = "vertical" THEN innerWidth ELSE innerHeight,
                           c.categoryGap)
        inner == bandScale(keys, Num(0), outer.bandWidth, c.seriesGap)
    IN  flatten([i \in 1..Len(data) |->
                    [j \in 1..Len(keys) |->
                        barRect(c, dom, RAdd(getX(outer, data[i].label), getX(inner, keys[j])),
                                inner.bandWidth, MathMax(Num(0), valueAt(data[i], keys[j])),
                                innerWidth, innerHeight)]])

\* one point of a line: cx = xBand.getX(label) + bandWidth / 2, cy = yScale(val)
linePoint(xBand, dom, label, val, innerHeight) ==
    [tag |-> "point",
     cx |-> RAdd(getX(xBand, label), RDiv(xBand.bandWidth, Num(2))),
     cy |-> linearScale(dom.vMin, dom.vMax, innerHeight, Num(0), val)]

\* createLineChart render: one point per datum
lineShapes(c, data, dom, innerWidth, innerHeight) ==
    LET labels == [i \in 1..Len(data) |-> data[i].label]
        xBand == bandScale(labels, Num(0), innerWidth, c.categoryGap)
    IN  [i \in 1..Len(data) |->
            linePoint(xBand, dom, data[i].label, MathMax(Num(0), data[i].value), innerHeight)]

\* createLineGroupChart render: for every series key, one point per datum
lineGroupShapes(c, data, dom, innerWidth, innerHeight) ==
    LET labels == [i \in 1..Len(data) |-> data[i].label]
        keys == inferredKeys(data)
        xBand == bandScale(labels, Num(0), innerWidth, c.categoryGap)
    IN  flatten([j \in 1..Len(keys) |->
                    [i \in 1..Len(data) |->
                        linePoint(xBand, dom, data[i].label,
                                  MathMax(Num(0), valueAt(data[i], keys[j])), innerHeight)]])

\* valueAxis?.ticks is left undefined
NoTicksOption == Policy("undefined", FALSE, <<>>, FALSE, Num(0), FALSE, Num(0))

\* renderAxisLinear: one grid line and label per tick of
\* makeTicks(vMin, vMax, valueAxis?.ticks), at pos = scale(t)
valueAxisTicks(c, dom, innerWidth, innerHeight) ==
    LET ticks == makeTicks(dom.vMin, dom.vMax, NoTicksOption).arr
        rMin == IF c.orientation = "vertical" THEN innerHeight ELSE Num(0)
        rMax == IF c.orientation = "vertical" THEN Num(0) ELSE innerWidth
    IN  [i \in 1..Len(ticks) |->
            [t |-> ticks[i], pos |-> linearScale(dom.vMin, dom.vMax, rMin, rMax, ticks[i])]]

\* render() that leaves the earlier content of g in place
clearGOmitted(scene) == scene

\* g.innerHTML = ""
clearG(scene) == <<>>

\* the chart's render({ innerWidth, innerHeight, svg, g }): the value domain it
\* hands to makeTicks and linearScale, and the data shapes it leaves in g
renderInto(c, innerW, innerH) ==
    IF c.kind = "none" THEN c
    ELSE LET dom == valueDomain(c, c.data)
             innerWidth == Num(innerW)
             innerHeight == Num(innerH)
             shapes == CASE c.kind = "bar" -> barShapes(c, c.data, dom, innerWidth, innerHeight)
                         [] c.kind = "barGroup" ->
                                barGroupShapes(c, c.data, dom, innerWidth, innerHeight)
                         [] c.kind = "line" -> lineShapes(c, c.data, dom, innerWidth, innerHeight)
                         [] OTHER -> lineGroupShapes(c, c.data, dom, innerWidth, innerHeight)
         IN  [c EXCEPT !.vMin = dom.vMin, !.vMax = dom.vMax,
                       !.container = IF Grouped(c.kind)
                                     THEN legendBlock(c.container, c.legend,
                                                      inferredKeys(c.data))
                                     ELSE c.container,
                       !.axis = valueAxisTicks(c, dom, innerWidth, innerHeight),
                       !.scene = clearG(c.scene) \o shapes]

\* container.innerHTML = "" of the wrapper's destroy()
containerEmptied(c) == IF c.kind = "none" THEN c ELSE [c EXCEPT !.container = <<>>]

----------------------------------------------------------------------------
(* core/ChartWrapper.js *)

\* setTimeout(..., 100)
DebounceMs == 100
\* height = 360, minWidth = 320, defaultWidth = 640
DefaultHeight == 360
DefaultMinWidth == 320
DefaultWidth == 640
\* const defaultPadding = { top: 24, right: 24, bottom: 40, left: 40 }
defaultPadding == [top |-> 24, right |-> 24, bottom |-> 40, left |-> 40]

Max(a, b) == IF a > b THEN a ELSE b
Min(a, b) == IF a < b THEN a ELSE b

\* framePadding: the sides the option overrides, as <<side, value>> pairs
\* ({} when the option is undefined or an empty object)
NoPadding == {}
WidePadding == {<<"left", 400>>, <<"right", 400>>}
TallPadding == {<<"top", 200>>, <<"bottom", 200>>}
FlushLeftPadding == {<<"left", 0>>}

\* The options of a construction.  hasWidth is FALSE when options.width is
\* undefined; measured is the width getBoundingClientRect() reports for the
\* wrapper element during construction (0: not laid out yet).
Options ==
    [hasWidth : {FALSE}, width : {0}, height : {DefaultHeight},
     minWidth : {DefaultMinWidth, 700}, defaultWidth : {DefaultWidth},
     framePadding : {NoPadding, WidePadding},
     measured : {0, 300, 500}]
    \cup
    [hasWidth : {FALSE}, width : {0}, height : {DefaultHeight},
     minWidth : {DefaultMinWidth}, defaultWidth : {DefaultWidth},
     framePadding : {TallPadding, FlushLeftPadding},
     measured : {500}]
    \cup
    [hasWidth : {TRUE}, width : {0}, height : {DefaultHeight},
     minWidth : {DefaultMinWidth}, defaultWidth : {DefaultWidth},
     framePadding : {NoPadding},
     measured : {0, 500}]
    \cup
    [hasWidth : {TRUE}, width : {400}, height : {DefaultHeight},
     minWidth : {DefaultMinWidth}, defaultWidth : {DefaultWidth},
     framePadding : {NoPadding, WidePadding, TallPadding},
     measured : {500}]

\* widths the container can take, as resize notifications report them
ObservedWidths == {300, 310, 450, 480, 500}

\* amounts of time that pass between two events
TimeSteps == {DebounceMs \div 4, DebounceMs \div 2, DebounceMs}

\* every side at its default, the overrides dropped
padDefaultsOnly(o) == defaultPadding

\* const pad = { ...defaultPadding, ...(framePadding ?? {}) }
pad(o) == [side \in {"top", "right", "bottom", "left"} |->
              IF \E p \in o.framePadding : p[1] = side
              THEN (CHOOSE p \in o.framePadding : p[1] = side)[2]
              ELSE defaultPadding[side]]

\* the observer registered whatever the width option
responsiveAlways(o) == TRUE

\* if (!width): width undefined or 0 turns responsive mode on
responsive(o) == ~o.hasWidth \/ o.width = 0

\* Math.max(entry.contentRect.width, minWidth)
clampWidth(w, minWidth) == Max(w, minWidth)

\* let currentWidth = width ?? defaultWidth; if (!width) { measure }
initialWidth(o) ==
    IF responsive(o) /\ o.measured > 0 THEN clampWidth(o.measured, o.minWidth)
    ELSE IF o.hasWidth THEN o.width
    ELSE o.defaultWidth

\* doRender: the arguments render() is invoked with, for stored width w
doRender(o, w, cause) ==
    [outerW |-> w,
     innerWidth |-> w - pad(o).left - pad(o).right,
     innerHeight |-> o.height - pad(o).top - pad(o).bottom,
     cause |-> cause]

Handles == 1..MaxTimers
NoTimers == [h \in Handles |-> -1]
pending(ts) == {h \in Handles : ts[h] >= 0}

\* the handler with the clearTimeout call left out
clearPendingOmitted(ts, rt) == ts

\* the handler cancelling only a timeout that is already due
clearPendingOnlyIfDue(ts, rt) == IF rt # 0 /\ ts[rt] = 0 THEN [ts EXCEPT ![rt] = -1] ELSE ts

\* if (resizeTimer) clearTimeout(resizeTimer)
clearPending(ts, rt) == IF rt # 0 THEN [ts EXCEPT ![rt] = -1] ELSE ts

\* the handle setTimeout returns: one that is not pending
freshHandle(ts) == CHOOSE h \in Handles \ pending(ts) : \A g \in Handles \ pending(ts) : h <= g

\* the handler storing a new width only while no render is scheduled
storedWidthFirstWins(cur, newWidth, ts) == IF pending(ts) # {} THEN cur ELSE newWidth

\* currentWidth = newWidth
storedWidth(cur, newWidth, ts) == newWidth

Sat(n) == IF n < MaxCount THEN n + 1 ELSE n

\* the state right after createChartWrapper(container, o) returned
createChartWrapper(o) ==
    /\ opts = o
    /\ currentWidth = initialWidth(o)
    /\ resizeTimer = 0
    /\ timers = NoTimers
    /\ observing = responsive(o)
    /\ destroyed = FALSE
    /\ lastDraw = doRender(o, initialWidth(o), "create")
    /\ lastOp = "create"
    /\ opDraws = 1
    /\ sinceNotify = DebounceMs
    /\ lastNotified = -1
    /\ burst = "none"
    /\ burstNotes = 0
    /\ burstDraws = 0
    /\ windowDraws = 0
    /\ supersededDrawn = FALSE

\* update() that schedules the render instead of making it
updateDeferred ==
    /\ timers' = [clearPending(timers, resizeTimer) EXCEPT
                     ![freshHandle(clearPending(timers, resizeTimer))] = DebounceMs]
    /\ resizeTimer' = freshHandle(clearPending(timers, resizeTimer))
    /\ lastOp' = "update"
    /\ opDraws' = 0
    /\ burst' = IF burst = "open" THEN "void" ELSE burst
    /\ UNCHANGED <<opts, currentWidth, observing, destroyed, lastDraw, sinceNotify,
                   lastNotified, burstNotes, burstDraws, windowDraws,
                   supersededDrawn, tk, sc, bd, ch, pie, mt>>

\* update() { doRender(); }, render() drawing chart c
updateDrawing(c) ==
    /\ lastDraw' = doRender(opts, currentWidth, "update")
    /\ ch' = renderInto(c, lastDraw'.innerWidth, lastDraw'.innerHeight)
    /\ lastOp' = "update"
    /\ opDraws' = 1
    /\ burst' = IF burst = "open" THEN "void" ELSE burst
    /\ burstDraws' = Sat(burstDraws)
    /\ windowDraws' = Sat(windowDraws)
    /\ UNCHANGED <<opts, currentWidth, resizeTimer, timers, observing, destroyed,
                   sinceNotify, lastNotified, burstNotes, supersededDrawn, tk, sc, bd, pie, mt>>

\* update() { doRender(); }
update == updateDrawing(ch)

\* the ResizeObserver callback, delivered one entry carrying width w
ResizeNotify(w) ==
    /\ observing
    /\ LET newWidth == clampWidth(w, opts.minWidth)
           changed == newWidth # currentWidth
           cleared == clearPending(timers, resizeTimer)
           starts == burst = "none" \/ sinceNotify = DebounceMs
       IN  /\ changed => Handles \ pending(cleared) # {}
           /\ currentWidth' = IF changed THEN storedWidth(currentWidth, newWidth, timers)
                              ELSE currentWidth
           /\ timers' = IF changed THEN [cleared EXCEPT ![freshHandle(cleared)] = DebounceMs]
                        ELSE timers
           /\ resizeTimer' = IF changed THEN freshHandle(cleared) ELSE resizeTimer
           /\ burst' = IF starts
                       THEN (IF changed /\ pending(timers) = {} THEN "open" ELSE "void")
                       ELSE (IF burst = "open" /\ changed THEN "open" ELSE "void")
           /\ burstNotes' = IF starts THEN 1 ELSE Sat(burstNotes)
           /\ burstDraws' = IF starts THEN 0 ELSE burstDraws
           /\ windowDraws' = IF changed THEN 0 ELSE windowDraws
           /\ supersededDrawn' = IF ~changed THEN supersededDrawn
                                 ELSE IF pending(timers) = {} THEN FALSE
                                 ELSE supersededDrawn \/ windowDraws > 0
    /\ sinceNotify' = 0
    /\ lastNotified' = w
    /\ lastOp' = "resize"
    /\ opDraws' = 0
    /\ UNCHANGED <<opts, observing, destroyed, lastDraw, tk, sc, bd, ch, pie, mt>>

\* the callback of setTimeout: () => { doRender(); }, run when handle h is due
TimerFire(h) ==
    /\ timers[h] = 0
    /\ timers' = [timers EXCEPT ![h] = -1]
    /\ lastDraw' = doRender(opts, currentWidth, "timer")
    /\ lastOp' = "timer"
    /\ opDraws' = 1
    /\ burstDraws' = Sat(burstDraws)
    /\ windowDraws' = Sat(windowDraws)
    /\ ch' = renderInto(ch, lastDraw'.innerWidth, lastDraw'.innerHeight)
    /\ UNCHANGED <<opts, currentWidth, resizeTimer, observing, destroyed,
                   sinceNotify, lastNotified, burst, burstNotes, supersededDrawn, tk, sc, bd, pie, mt>>

\* dt ms pass; no pending timer is overrun
Tick(dt) ==
    /\ pending(timers) # {} \/ sinceNotify < DebounceMs
    /\ \A h \in pending(timers) : timers[h] >= dt
    /\ timers' = [h \in Handles |-> IF timers[h] >= 0 THEN timers[h] - dt ELSE -1]
    /\ sinceNotify' = Min(sinceNotify + dt, DebounceMs)
    /\ lastOp' = "tick"
    /\ opDraws' = 0
    /\ UNCHANGED <<opts, currentWidth, resizeTimer, observing, destroyed, lastDraw,
                   lastNotified, burst, burstNotes, burstDraws, windowDraws,
                   supersededDrawn, tk, sc, bd, ch, pie, mt>>

\* destroy() { if (resizeObserver) resizeObserver.disconnect(); container.innerHTML = ""; }
destroy ==
    /\ ~destroyed
    /\ observing' = FALSE
    /\ destroyed' = TRUE
    /\ lastOp' = "destroy"
    /\ opDraws' = 0
    /\ burst' = IF burst = "open" THEN "void" ELSE burst
    /\ ch' = containerEmptied(ch)
    /\ UNCHANGED <<opts, currentWidth, resizeTimer, timers, lastDraw, sinceNotify,
                   lastNotified, burstNotes, burstDraws, windowDraws,
                   supersededDrawn, tk, sc, bd, pie, mt>>

----------------------------------------------------------------------------
(* PieChart.js.  Angles are counted in turns: TAU is 1, -Math.PI / 2 is -1/4 *)

PieDefaultWidth == 640
PieMinWidth == 320
PieDefaultHeight == 360

\* PieDatum values: the rows of a data set repeat one of these patterns
PieValues ==
    {<<Num(0), Num(50)>>, <<Num(5), Num(2), Num(3)>>, <<Num(-3), NaN>>,
     <<PosInf, NegInf>>, <<NaN, Num(5)>>}
PieDataSets == {rowsOf("pie", pattern, n) : pattern \in PieValues, n \in 0..MaxRows}

\* innerRadiusRatio as passed
RadiusRatios == {Num(0), Rat(1, 2), Rat(19, 20), Rat(99, 100), Rat(3, 2), Rat(-1, 2)}

\* the props of a pie chart: hasWidth is FALSE when props.width is undefined
PieProps ==
    [hasWidth : {FALSE}, width : {0}, height : {PieDefaultHeight, 32},
     innerRadiusRatio : RadiusRatios, legend : {LegendDefault}]
    \cup
    [hasWidth : {TRUE}, width : {400, 22}, height : {PieDefaultHeight, 32},
     innerRadiusRatio : RadiusRatios, legend : {LegendDefault}]
    \cup
    [hasWidth : BOOLEAN, width : {0}, height : {PieDefaultHeight},
     innerRadiusRatio : {Num(0)}, legend : LegendOptions]

\* widths the pie's own observer reports
PieObservedWidths == {300, 450, 500}

\* no pie chart
PieNone == [kind |-> "none"]

\* value taken as passed
pieValueRaw(v) == v

\* value: Number.isFinite(d.value) ? Math.max(0, d.value) : 0
pieValue(v) == IF IsFinite(v) THEN MathMax(Num(0), v) ELSE Num(0)

\* validData without the filter
validDataUnfiltered(data) ==
    [i \in 1..Len(data) |-> [label |-> data[i].label, value |-> pieValue(data[i].value)]]

\* validData: the rows with their value replaced, then .filter((d) => d.value > 0)
validData(data) ==
    SelectSeq([i \in 1..Len(data) |-> [label |-> data[i].label, value |-> pieValue(data[i].value)]],
              LAMBDA d : RLess(Num(0), d.value))

\* validData.reduce((acc, d) => acc + d.value, 0) over the first n rows
RECURSIVE sumValues(_, _)
sumValues(rows, n) == IF n = 0 THEN Num(0) ELSE RAdd(sumValues(rows, n - 1), rows[n].value)

\* the angle the first slice starts at
StartAngle == Rat(-1, 4)

\* the forEach that walks angle from -Math.PI / 2: slice i starts where slice
\* i - 1 ended and spans fraction * TAU
pieSlices(rows) ==
    LET total == sumValues(rows, Len(rows))
    IN  IF Len(rows) > 0 /\ RLess(Num(0), total)
        THEN [i \in 1..Len(rows) |->
                 [cls |-> "pie-slice", label |-> rows[i].label,
                  start |-> RAdd(StartAngle, RDiv(sumValues(rows, i - 1), total)),
                  end |-> RAdd(RAdd(StartAngle, RDiv(sumValues(rows, i - 1), total)),
                               RDiv(rows[i].value, total)),
                  fraction |-> RDiv(rows[i].value, total)]]
        ELSE <<>>

\* radius = Math.min(availableWidth, availableHeight) / 2
pieRadius(currentW, height, l) ==
    LET paddingTop == IF legendShown(l) THEN 20 ELSE 10
        padding == 10
        availableWidth == currentW - padding * 2
        availableHeight == height - paddingTop - padding
    IN  RDiv(Num(IF availableWidth < availableHeight THEN availableWidth ELSE availableHeight),
             Num(2))

\* the inner radius taken from the ratio as passed
innerRadiusUnclamped(radius, innerRadiusRatio) == RMul(radius, innerRadiusRatio)

\* ratio = Math.max(0, Math.min(innerRadiusRatio, 0.95));
\* innerR = Math.max(0, Math.min(radius * ratio, radius - 2))
innerRadius(radius, innerRadiusRatio) ==
    LET ratio == MathMax(Num(0), MathMin(innerRadiusRatio, Rat(95, 100)))
    IN  MathMax(Num(0), MathMin(RMul(radius, ratio), RSub(radius, Num(2))))

\* the placeholder of the empty state
EmptyRing == [cls |-> "pie-empty-ring", label |-> "", start |-> Num(0), end |-> Num(0),
              fraction |-> Num(0)]

\* render(): the legend block, then svg.innerHTML = "" and either the
\* placeholder circle or one path per slice (mask, separators and rings left out)
pieRender(p) ==
    LET rows == validData(p.data)
        labels == [i \in 1..Len(rows) |-> rows[i].label]
        slices == pieSlices(rows)
        radius == pieRadius(p.currentWidth, p.height, p.legend)
    IN  [p EXCEPT !.container = legendBlock(p.container, p.legend, labels),
                  !.radius = radius,
                  !.innerR = innerRadius(radius, p.innerRadiusRatio),
                  !.svg = IF Len(slices) = 0 THEN <<EmptyRing>> ELSE slices]

\* the state right after createPieChart(container, props) returned
createPieChart(props, data) ==
    pie = pieRender([kind |-> "pie", hasWidth |-> props.hasWidth, width |-> props.width,
                     height |-> props.height, innerRadiusRatio |-> props.innerRadiusRatio,
                     legend |-> props.legend, data |-> data,
                     \* let currentWidth = width || 640
                     currentWidth |-> IF props.hasWidth /\ props.width # 0 THEN props.width
                                      ELSE PieDefaultWidth,
                     \* if (!width) { resizeObserver = new ResizeObserver(...) }
                     observing |-> ~props.hasWidth \/ props.width = 0,
                     destroyed |-> FALSE,
                     container |-> <<TooltipEl, WrapperEl>>,
                     radius |-> Num(0), innerR |-> Num(0), svg |-> <<>>,
                     lastOp |-> "create", opDraws |-> 1, run |-> 0, runDraws |-> 0])

\* update(newData) { currentData = newData; render(); }
PieUpdate(newData) ==
    /\ pie.kind = "pie" /\ ~pie.destroyed
    /\ pie' = [pieRender([pie EXCEPT !.data = newData]) EXCEPT
                  !.lastOp = "update", !.opDraws = 1, !.run = 0, !.runDraws = 0]
    /\ UNCHANGED <<tk, sc, bd, ch, mt>>
    /\ UNCHANGED wvars

\* the pie's ResizeObserver callback, delivered one entry carrying width w
PieResize(w) ==
    /\ pie.kind = "pie" /\ pie.observing
    /\ LET newWidth == IF w > PieMinWidth THEN w ELSE PieMinWidth
       IN  pie' = IF newWidth # pie.currentWidth
                  THEN [pieRender([pie EXCEPT !.currentWidth = newWidth]) EXCEPT
                           !.lastOp = "resize", !.opDraws = 1,
                           !.run = Sat(pie.run), !.runDraws = Sat(pie.runDraws)]
                  ELSE [pie EXCEPT !.lastOp = "resize", !.opDraws = 0, !.run = 0,
                                   !.runDraws = 0]
    /\ UNCHANGED <<tk, sc, bd, ch, mt>>
    /\ UNCHANGED wvars

\* destroy() { if (resizeObserver) resizeObserver.disconnect(); container.innerHTML = ""; }
PieDestroy ==
    /\ pie.kind = "pie" /\ ~pie.destroyed
    /\ pie' = [pie EXCEPT !.observing = FALSE, !.destroyed = TRUE, !.container = <<>>,
                          !.lastOp = "destroy", !.opDraws = 0, !.run = 0, !.runDraws = 0]
    /\ UNCHANGED <<tk, sc, bd, ch, mt>>
    /\ UNCHANGED wvars

----------------------------------------------------------------------------
(* ChartWrapper.js: what construction does to the elements of the container *)

\* children the container can have before construction
MaxNodes == 3

\* a child of the container: its kind, and the kinds of its own children.
\* tooltip and note are elements without an svg inside; box is a div around an
\* svg (the wrapper an earlier chart left), with or without a further child
NodeKinds ==
    {[el |-> "tooltip", kids |-> <<>>], [el |-> "note", kids |-> <<>>],
     [el |-> "svg", kids |-> <<>>], [el |-> "box", kids |-> <<"svg">>],
     [el |-> "box", kids |-> <<"svg", "note">>]}
Trees == UNION {[1..n -> NodeKinds] : n \in 0..MaxNodes}

MtIdle == [phase |-> "idle", before |-> <<>>, children |-> <<>>, attached |-> TRUE]

holdsSvg(node) == \E k \in 1..Len(node.kids) : node.kids[k] = "svg"

\* container.querySelectorAll("svg").forEach((svg) => svg.parentElement?.remove()):
\* every child that holds an svg leaves the container with all it contains; an
\* svg that is a child of the container itself stays
removeSvgParents(children) == SelectSeq(children, LAMBDA e : ~holdsSvg(e))

\* the same forEach, for the svg elements whose parent is the container: the
\* container is removed from its own parent
staysAttached(children) == \A k \in 1..Len(children) : children[k].el # "svg"

\* createChartWrapper(container, ...): the cleanup, then container.appendChild(wrapper)
mountWrapper(m) ==
    [m EXCEPT !.phase = "after",
              !.children = Append(removeSvgParents(m.children),
                                  [el |-> "wrapper", kids |-> <<"svg">>]),
              !.attached = m.attached /\ staysAttached(m.children)]

CallCreateChartWrapper ==
    /\ mt.phase = "before"
    /\ mt' = mountWrapper(mt)
    /\ UNCHANGED <<tk, sc, bd, ch, pie>>
    /\ UNCHANGED wvars

----------------------------------------------------------------------------
(* The handle a chart factory returns *)

\* the wrapper options a chart built with a fixed width hands on
ChartOptions == {o \in Options : ~responsive(o)}

\* the state right after create*Chart(container, props) returned: the wrapper
\* is constructed and its initial doRender() has drawn data
createChart(o, props, data) ==
    /\ createChartWrapper(o)
    /\ ch = renderInto([kind |-> props.kind, orientation |-> props.orientation,
                        categoryGap |-> props.categoryGap, seriesGap |-> props.seriesGap,
                        valueAxis |-> props.valueAxis, legend |-> props.legend,
                        data |-> data, container |-> <<TooltipEl, WrapperEl>>,
                        vMin |-> Num(0), vMax |-> Num(0), axis |-> <<>>, scene |-> <<>>],
                       doRender(o, initialWidth(o), "create").innerWidth,
                       doRender(o, initialWidth(o), "create").innerHeight)

\* update(newData) { currentData = newData; chartWrapper.update(); }
ChartUpdate(newData) ==
    /\ ch.kind # "none" /\ ~destroyed
    /\ updateDrawing([ch EXCEPT !.data = newData])

\* destroy() { chartWrapper.destroy(); }
ChartDestroy == ch.kind # "none" /\ destroy

----------------------------------------------------------------------------
(* Calls of the pure functions *)

TkIdle == [phase |-> "idle", yMin |-> Num(0), yMax |-> Num(0),
           ticks |-> Policy("undefined", FALSE, <<>>, FALSE, Num(0), FALSE, Num(0)),
           out |-> Returned(<<>>)]
ScIdle == [phase |-> "idle", dMin |-> Num(0), dMax |-> Num(0), rMin |-> Num(0),
           rMax |-> Num(0), v |-> Num(0), atMin |-> Num(0), atMax |-> Num(0),
           atV |-> Num(0)]

BdIdle == [phase |-> "idle", labels |-> <<>>, rMin |-> Num(0), rMax |-> Num(0),
           gapRatio |-> Num(0), key |-> "a", bandWidth |-> Num(0), gapWidth |-> Num(0),
           at |-> <<>>, atKey |-> Num(0)]

\* ticks = makeTicks(yMin, yMax, policy)
CallMakeTicks ==
    /\ tk.phase = "input"
    /\ tk' = [tk EXCEPT !.phase = "done", !.out = makeTicks(tk.yMin, tk.yMax, tk.ticks)]
    /\ UNCHANGED <<sc, bd, ch, pie, mt>>
    /\ UNCHANGED wvars

\* scale = linearScale(dMin, dMax, rMin, rMax); scale(dMin), scale(dMax), scale(v)
CallLinearScale ==
    /\ sc.phase = "input"
    /\ sc' = [sc EXCEPT !.phase = "done",
                        !.atMin = linearScale(sc.dMin, sc.dMax, sc.rMin, sc.rMax, sc.dMin),
                        !.atMax = linearScale(sc.dMin, sc.dMax, sc.rMin, sc.rMax, sc.dMax),
                        !.atV = linearScale(sc.dMin, sc.dMax, sc.rMin, sc.rMax, sc.v)]
    /\ UNCHANGED <<tk, bd, ch, pie, mt>>
    /\ UNCHANGED wvars

\* band = bandScale(labels, rMin, rMax, gapRatio); band.getX of every label and of key
CallBandScale ==
    /\ bd.phase = "input"
    /\ LET band == bandScale(bd.labels, bd.rMin, bd.rMax, bd.gapRatio)
       IN  bd' = [bd EXCEPT !.phase = "done",
                            !.bandWidth = band.bandWidth,
                            !.gapWidth = band.gapWidth,
                            !.at = [i \in 1..Len(bd.labels) |-> getX(band, bd.labels[i])],
                            !.atKey = getX(band, bd.key)]
    /\ UNCHANGED <<tk, sc, ch, pie, mt>>
    /\ UNCHANGED wvars

----------------------------------------------------------------------------
(* Specifications *)

\* the chart wrapper: construction, then update / resize / timer / destroy
Init ==
    /\ \E o \in Options : createChartWrapper(o)
    /\ tk = TkIdle
    /\ sc = ScIdle
    /\ bd = BdIdle
    /\ ch = ChNone
    /\ pie = PieNone
    /\ mt = MtIdle

\* destroy() is the last valid call on a handle: update() is only made before it
Next ==
    \/ (~destroyed /\ update)
    \/ \E w \in ObservedWidths : ResizeNotify(w)
    \/ \E h \in Handles : TimerFire(h)
    \/ \E dt \in TimeSteps : Tick(dt)
    \/ destroy

Spec == Init /\ [][Next]_vars

\* makeTicks applied to every domain and policy of the bounded input sets
InitTicks ==
    /\ createChartWrapper(CHOOSE o \in Options : ~o.hasWidth /\ o.measured = 0
                                                 /\ o.minWidth = DefaultMinWidth
                                                 /\ o.framePadding = NoPadding)
    /\ tk \in [phase : {"input"}, yMin : Nums, yMax : Nums, ticks : TickPolicies,
               out : {Returned(<<>>)}]
    /\ sc = ScIdle
    /\ bd = BdIdle
    /\ ch = ChNone
    /\ pie = PieNone
    /\ mt = MtIdle

NextTicks == CallMakeTicks

SpecTicks == InitTicks /\ [][NextTicks]_vars

\* linearScale applied to every domain, range and value of the bounded input sets
InitScale ==
    /\ createChartWrapper(CHOOSE o \in Options : ~o.hasWidth /\ o.measured = 0
                                                 /\ o.minWidth = DefaultMinWidth
                                                 /\ o.framePadding = NoPadding)
    /\ tk = TkIdle
    /\ sc \in [phase : {"input"}, dMin : Nums, dMax : Nums, rMin : RangeVals,
               rMax : RangeVals, v : Nums, atMin : {Num(0)}, atMax : {Num(0)},
               atV : {Num(0)}]
    /\ bd = BdIdle
    /\ ch = ChNone
    /\ pie = PieNone
    /\ mt = MtIdle

NextScale == CallLinearScale

SpecScale == InitScale /\ [][NextScale]_vars

\* bandScale applied to every label list, range and gap ratio of the bounded input sets
InitBand ==
    /\ createChartWrapper(CHOOSE o \in Options : ~o.hasWidth /\ o.measured = 0
                                                 /\ o.minWidth = DefaultMinWidth
                                                 /\ o.framePadding = NoPadding)
    /\ tk = TkIdle
    /\ sc = ScIdle
    /\ bd \in [phase : {"input"}, labels : LabelSeqs, rMin : BandRangeVals,
               rMax : BandRangeVals, gapRatio : GapRatios, key : LabelNames \cup {"z"},
               bandWidth : {Num(0)}, gapWidth : {Num(0)}, at : {<<>>}, atKey : {Num(0)}]
    /\ ch = ChNone
    /\ pie = PieNone
    /\ mt = MtIdle

NextBand == CallBandScale

SpecBand == InitBand /\ [][NextBand]_vars

\* the wrapper with no chart and no measurement, standing by while another
\* part of the library runs
IdleWrapper ==
    createChartWrapper(CHOOSE o \in Options : ~o.hasWidth /\ o.measured = 0
                                               /\ o.minWidth = DefaultMinWidth
                                               /\ o.framePadding = NoPadding)

\* createChartWrapper on every container of the bounded set of element trees
InitMount ==
    /\ IdleWrapper
    /\ tk = TkIdle
    /\ sc = ScIdle
    /\ bd = BdIdle
    /\ ch = ChNone
    /\ pie = PieNone
    /\ \E t \in Trees :
          mt = [phase |-> "before", before |-> t, children |-> t, attached |-> TRUE]

NextMount == CallCreateChartWrapper

SpecMount == InitMount /\ [][NextMount]_vars

\* a bar, grouped-bar, line or grouped-line chart of fixed width: construction,
\* then update(newData) calls, then destroy()
InitChart ==
    /\ \/ /\ \E o \in ChartOptions : \E props \in ChartProps :
                \E data \in DataSets(props.kind) : createChart(o, props, data)
          /\ pie = PieNone
       \/ /\ \E props \in PieProps : \E data \in PieDataSets : createPieChart(props, data)
          /\ IdleWrapper
          /\ ch = ChNone
    /\ tk = TkIdle
    /\ sc = ScIdle
    /\ bd = BdIdle
    /\ mt = MtIdle

NextChart ==
    \/ \E newData \in DataSets(ch.kind) : ChartUpdate(newData)
    \/ ChartDestroy
    \/ \E newData \in PieDataSets : PieUpdate(newData)
    \/ \E w \in PieObservedWidths : PieResize(w)
    \/ PieDestroy

SpecChart == InitChart /\ [][NextChart]_vars

\* the wrapper options of a responsive chart measured at 500
LegendWrapperOptions ==
    {o \in Options : /\ ~o.hasWidth /\ o.measured = 500 /\ o.minWidth = DefaultMinWidth
                     /\ o.framePadding = NoPadding}

\* grouped data over the series s and t: no row, or MaxRows rows
LegendDataSets(kind) ==
    {rowsOf(kind, << <<<<"s", Num(5)>>, <<"t", Num(2)>>>>, <<<<"t", Num(4)>>>> >>, n) :
        n \in {0, MaxRows}}

\* the pie props with every form of the legend option
LegendPieProps ==
    {p \in PieProps : /\ p.width = 0 /\ p.height = PieDefaultHeight
                      /\ p.innerRadiusRatio = Num(0)}

\* widths the container of a chart with a legend takes
LegendObservedWidths == {300, 450}

\* a responsive grouped-bar or grouped-line chart, or a pie chart, with every
\* form of the legend option: construction, then update(newData) calls, resize
\* notifications with their debounced renders, then destroy()
InitLegend ==
    /\ \/ /\ \E o \in LegendWrapperOptions : \E props \in LegendChartProps :
                \E data \in LegendDataSets(props.kind) : createChart(o, props, data)
          /\ pie = PieNone
       \/ /\ \E props \in LegendPieProps : \E data \in PieDataSets :
                createPieChart(props, data)
          /\ IdleWrapper
          /\ ch = ChNone
    /\ tk = TkIdle
    /\ sc = ScIdle
    /\ bd = BdIdle
    /\ mt = MtIdle

NextLegend ==
    \/ \E newData \in LegendDataSets(ch.kind) : ChartUpdate(newData)
    \/ \E w \in LegendObservedWidths : ch.kind # "none" /\ ResizeNotify(w)
    \/ \E h \in Handles : ch.kind # "none" /\ TimerFire(h)
    \/ ch.kind # "none" /\ Tick(DebounceMs)
    \/ ChartDestroy
    \/ \E newData \in PieDataSets : PieUpdate(newData)
    \/ \E w \in PieObservedWidths : PieResize(w)
    \/ PieDestroy

SpecLegend == InitLegend /\ [][NextLegend]_vars

----------------------------------------------------------------------------
(* Properties *)

\* a burst of width-changing notifications has ended: the quiet period has
\* elapsed since its last notification and no render is scheduled any more
BurstOver == burst = "open" /\ sinceNotify = DebounceMs /\ pending(timers) = {}

C2_NoDrawAfterDestroy == destroyed => ~(lastOp = "timer" /\ opDraws = 1)

\* C3 as claimed: a width observed in a debounce window and then superseded by
\* a different width is never rendered, be it by the timer or by update().
C3_SupersededNeverDrawn == ~supersededDrawn

\* C3 as amended: every render() invocation made by the debounce timer uses the
\* floor-clamped width of the most recent notification, so a superseded width is
\* never rendered by the timer (update() does render the stored width at once).
C3_TimerDrawsLatestWidth ==
    lastOp = "timer" =>
        lastDraw.outerW = (IF lastNotified > opts.minWidth THEN lastNotified
                           ELSE opts.minWidth)

\* the timer rendered the latest width after an earlier width of the same
\* window had been rendered by update() and then superseded
C3_Witness ==
    lastOp = "timer" /\ supersededDrawn /\ ~destroyed
    /\ lastDraw.outerW = clampWidth(lastNotified, opts.minWidth)

\* C4: update() invokes render() exactly once, within the call, with innerWidth
\* computed from the stored width; it neither schedules nor cancels a timer.
C4_UpdateRendersNow ==
    [][lastOp' = "update" =>
          /\ opDraws' = 1
          /\ lastDraw'.cause = "update"
          /\ lastDraw'.outerW = currentWidth
          /\ lastDraw'.innerWidth =
                 currentWidth - pad(opts).left - pad(opts).right
          /\ timers' = timers
          /\ currentWidth' = currentWidth]_vars

\* update() rendered the stored width while a debounced render was still pending
C4_Witness ==
    lastOp = "update" /\ pending(timers) # {} /\ lastDraw.cause = "update"
    /\ lastDraw.outerW = currentWidth /\ lastNotified # -1

StrictlyAscending(arr) == \A i \in 1..(Len(arr) - 1) : RLess(arr[i], arr[i + 1])
IsStepPolicy(p) == p.kind = "object" /\ p.hasStep
IsCountPolicy(p) == p.kind = "object" /\ ~p.hasStep /\ p.hasCount
IsMalformedPolicy(p) ==
    \/ p.kind \in {"number", "string", "boolean"}
    \/ p.kind = "object" /\ ~p.hasStep /\ ~p.hasCount

\* C5: for step >= 1 and domainMin <= domainMax, makeTicks(.., {step}) is
\* strictly ascending (so no endpoint is duplicated), starts at domainMin and
\* ends at domainMax.
C5_StepTicksSpanDomain ==
    (tk.phase = "done" /\ IsStepPolicy(tk.ticks) /\ RLeq(Num(1), tk.ticks.step)
        /\ RLeq(tk.yMin, tk.yMax)) =>
        /\ ~tk.out.threw
        /\ Len(tk.out.arr) >= 1
        /\ tk.out.arr[1] = tk.yMin
        /\ tk.out.arr[Len(tk.out.arr)] = tk.yMax
        /\ StrictlyAscending(tk.out.arr)

\* a step policy whose multiples reach neither bound: both were inserted
C5_Witness ==
    /\ tk.phase = "done" /\ IsStepPolicy(tk.ticks) /\ tk.ticks.step = Num(2)
    /\ tk.yMin = Num(-1) /\ tk.yMax = Num(3)
    /\ tk.out.arr = <<Num(-1), Num(0), Num(2), Num(3)>>

\* C6: for an integer count >= 1, makeTicks(.., {count}) has count+1 elements,
\* the first equal to domainMin and the last equal to domainMax.
C6_CountTicksExact ==
    (tk.phase = "done" /\ IsCountPolicy(tk.ticks) /\ RLeq(Num(1), tk.ticks.count)
        /\ tk.ticks.count[2] = 1) =>
        /\ ~tk.out.threw
        /\ Len(tk.out.arr) = tk.ticks.count[1] + 1
        /\ tk.out.arr[1] = tk.yMin
        /\ tk.out.arr[Len(tk.out.arr)] = tk.yMax

\* C7: for every policy and domainMin <= domainMax the returned sequence starts
\* at domainMin and ends at domainMax.
C7_TicksDomainInclusive ==
    (tk.phase = "done" /\ RLeq(tk.yMin, tk.yMax)) =>
        /\ ~tk.out.threw
        /\ Len(tk.out.arr) >= 1
        /\ tk.out.arr[1] = tk.yMin
        /\ tk.out.arr[Len(tk.out.arr)] = tk.yMax

\* C8: a malformed policy (an empty object, a number, a string, a boolean)
\* yields [domainMin, domainMax] and no exception.
C8_MalformedFallsBack ==
    (tk.phase = "done" /\ IsMalformedPolicy(tk.ticks)) =>
        tk.out = Returned(<<tk.yMin, tk.yMax>>)

\* C9 as claimed: the scale maps domainMin to rangeStart and domainMax to
\* rangeEnd for every domain, domainMin = domainMax included.
C9_ScaleHitsBothEnds ==
    sc.phase = "done" => sc.atMin = sc.rMin /\ sc.atMax = sc.rMax

\* C9 as amended: the scale maps domainMin to rangeStart; it maps domainMax to
\* rangeEnd when domainMin # domainMax and to rangeStart when they are equal.
C9_ScaleEndpoints ==
    sc.phase = "done" =>
        /\ sc.atMin = sc.rMin
        /\ sc.dMin # sc.dMax => sc.atMax = sc.rMax
        /\ sc.dMin = sc.dMax => sc.atMax = sc.rMin

\* an inverted range (rangeStart > rangeEnd) over a non-degenerate domain
C9_Witness ==
    /\ sc.phase = "done" /\ sc.dMin # sc.dMax /\ sc.dMin # Num(0)
    /\ RLess(sc.rMax, sc.rMin) /\ sc.atMin = sc.rMin /\ sc.atMax = sc.rMax

\* C10: when domainMax = domainMin the span is taken as 1: the scale yields the
\* finite value rangeStart + (v - domainMin) * (rangeEnd - rangeStart).
C10_DegenerateDomainGuarded ==
    (sc.phase = "done" /\ sc.dMin = sc.dMax) =>
        /\ IsFinite(sc.atV)
        /\ sc.atV = RAdd(sc.rMin, RMul(RSub(sc.v, sc.dMin), RSub(sc.rMax, sc.rMin)))

\* a degenerate domain applied to a value off the domain point
C10_Witness ==
    /\ sc.phase = "done" /\ sc.dMin = sc.dMax /\ sc.v # sc.dMin
    /\ sc.rMin = Num(50) /\ sc.rMax = Num(200) /\ sc.atV # sc.rMin /\ IsFinite(sc.atV)

\* labels that name each category once
UniqueLabels(labels) ==
    \A i, j \in 1..Len(labels) : labels[i] = labels[j] => i = j

BandCount == IF Len(bd.labels) > 1 THEN Len(bd.labels) ELSE 1

\* C11: for a gap ratio in [0, 1), bandScale splits the range into n bands of one
\* width and n + 1 gaps of one width (one before the first band, one between
\* neighbours, one after the last), with
\* bandWidth * n + gapWidth * (n + 1) = rangeEnd - rangeStart.
C11_BandsAndGapsFillRange ==
    (bd.phase = "done" /\ RLeq(Num(0), bd.gapRatio) /\ RLess(bd.gapRatio, Num(1))) =>
        /\ RAdd(RMul(bd.bandWidth, Num(BandCount)), RMul(bd.gapWidth, Num(BandCount + 1)))
             = RSub(bd.rMax, bd.rMin)
        /\ (UniqueLabels(bd.labels) /\ Len(bd.labels) > 0) =>
              /\ RSub(bd.at[1], bd.rMin) = bd.gapWidth
              /\ \A i \in 1..(Len(bd.labels) - 1) :
                    RSub(bd.at[i + 1], RAdd(bd.at[i], bd.bandWidth)) = bd.gapWidth
              /\ RSub(bd.rMax, RAdd(bd.at[Len(bd.labels)], bd.bandWidth)) = bd.gapWidth

\* two categories over [0, 100] with gap ratio 1/2: bands of 25, gaps of 50/3
C11_Witness ==
    /\ bd.phase = "done" /\ bd.labels = <<"a", "b">> /\ bd.gapRatio = Rat(1, 2)
    /\ bd.rMin = Num(0) /\ bd.rMax = Num(100)
    /\ bd.bandWidth = Num(25) /\ bd.gapWidth = Rat(50, 3)

\* C12: getX of the label at index i (from 0) is
\* rangeStart + gapWidth + i * (bandWidth + gapWidth); getX of a label that is not
\* in the list is 0; bandScale(["a","b"], 0, 100, 0.2) has bandWidth 40,
\* gapWidth 20/3 and puts "a" at 20/3 and "b" at 160/3.
C12_GetXPositions ==
    bd.phase = "done" =>
        /\ UniqueLabels(bd.labels) =>
              \A i \in 1..Len(bd.labels) :
                  bd.at[i] = RAdd(RAdd(bd.rMin, bd.gapWidth),
                                  RMul(Num(i - 1), RAdd(bd.bandWidth, bd.gapWidth)))
        /\ (\A i \in 1..Len(bd.labels) : bd.labels[i] # bd.key) => bd.atKey = Num(0)
        /\ (bd.labels = <<"a", "b">> /\ bd.rMin = Num(0) /\ bd.rMax = Num(100)
              /\ bd.gapRatio = Rat(1, 5)) =>
              /\ bd.bandWidth = Num(40)
              /\ bd.gapWidth = Rat(20, 3)
              /\ bd.at = <<Rat(20, 3), Rat(160, 3)>>

\* the scenario of the claim, looked up with a key that is not a label
C12_Witness ==
    /\ bd.phase = "done" /\ bd.labels = <<"a", "b">> /\ bd.gapRatio = Rat(1, 5)
    /\ bd.rMin = Num(0) /\ bd.rMax = Num(100) /\ bd.key = "z"
    /\ bd.at[2] = Rat(160, 3) /\ bd.atKey = Num(0)

\* C13: bandScale clamps the gap ratio into [0, 1): over a range that does not
\* run backwards, bandWidth and gapWidth are never negative, whatever the ratio,
\* and a negative ratio gives what ratio 0 gives.
C13_GapRatioClamped ==
    (bd.phase = "done" /\ RLeq(bd.rMin, bd.rMax)) =>
        /\ RLeq(Num(0), bd.bandWidth)
        /\ RLeq(Num(0), bd.gapWidth)
        /\ RLess(bd.gapRatio, Num(0)) =>
              /\ bd.gapWidth = Num(0)
              /\ bd.bandWidth = RDiv(RSub(bd.rMax, bd.rMin), Num(BandCount))

\* a width option that is given and not 0 (0 is read as no width: if (!width))
FixedWidth(o) == o.hasWidth /\ o.width # 0

\* C14: right after construction the stored width is the fixed width when one
\* is supplied, else the measured width raised to minWidth when the measurement
\* is greater than 0, else defaultWidth; the initial render uses that width.
C14_InitialWidth ==
    lastOp = "create" =>
        LET expected == IF FixedWidth(opts) THEN opts.width
                        ELSE IF opts.measured > 0
                             THEN (IF opts.measured > opts.minWidth THEN opts.measured
                                   ELSE opts.minWidth)
                        ELSE opts.defaultWidth
        IN  currentWidth = expected /\ lastDraw.outerW = expected

\* the side's override when framePadding names the side, else the documented default
ExpectedPad(side) ==
    LET given == {p \in opts.framePadding : p[1] = side}
        default == CASE side = "top" -> 24 [] side = "right" -> 24
                     [] side = "bottom" -> 40 [] side = "left" -> 40
    IN  IF given = {} THEN default ELSE (CHOOSE p \in given : TRUE)[2]

\* C15: every render() invocation (initial, update(), debounced resize) gets
\* innerWidth = stored width - left - right and innerHeight = height - top - bottom,
\* each side being the framePadding override when given and otherwise the default
\* (top 24, right 24, bottom 40, left 40); zero and negative results pass through.
C15_InnerSizeFromPadding ==
    /\ lastDraw.innerWidth = lastDraw.outerW - ExpectedPad("left") - ExpectedPad("right")
    /\ lastDraw.innerHeight = opts.height - ExpectedPad("top") - ExpectedPad("bottom")
    /\ opDraws = 1 => lastDraw.outerW = currentWidth

\* a debounced render that handed a negative innerWidth to render()
C15_Witness ==
    lastOp = "timer" /\ opDraws = 1 /\ lastDraw.cause = "timer"
    /\ lastDraw.outerW = 450 /\ lastDraw.innerWidth = -350 /\ lastDraw.innerHeight = 296

FiniteData ==
    \A i \in 1..Len(ch.data) :
        IF Grouped(ch.kind)
        THEN \A j \in 1..Len(ch.data[i].values) : IsFinite(ch.data[i].values[j][2])
        ELSE IsFinite(ch.data[i].value)

Coordinates(shape) ==
    IF shape.tag = "rect" THEN {shape.x, shape.y, shape.width, shape.height}
    ELSE {shape.cx, shape.cy}

\* C17: for every bar, grouped-bar, line and grouped-line chart, every data set
\* of finite values and every valueAxis.min / valueAxis.max, the value domain
\* handed to makeTicks and linearScale on a render is non-empty: vMin < vMax.
C17_DomainNonEmpty ==
    (ch.kind # "none" /\ FiniteData) => RLess(ch.vMin, ch.vMax)

\* C18: a data value that is negative, NaN, +Infinity or -Infinity is replaced
\* by 0 before layout: no domain bound and no coordinate of a drawn shape is
\* NaN or infinite.
C18_NoNonFiniteGeometry ==
    ch.kind # "none" =>
        /\ IsFinite(ch.vMin) /\ IsFinite(ch.vMax)
        /\ \A i \in 1..Len(ch.scene) : \A v \in Coordinates(ch.scene[i]) : IsFinite(v)

\* C19: when render() is handed a negative innerWidth or innerHeight, every
\* rect of a bar or grouped-bar chart (finite data, vMin < vMax) still has a
\* width >= 0 and a height >= 0.
C19_RectsNeverNegative ==
    (/\ ch.kind \in {"bar", "barGroup"}
     /\ FiniteData /\ RLess(ch.vMin, ch.vMax)
     /\ (lastDraw.innerWidth < 0 \/ lastDraw.innerHeight < 0)) =>
        \A i \in 1..Len(ch.scene) :
            RLeq(Num(0), ch.scene[i].width) /\ RLeq(Num(0), ch.scene[i].height)

\* the number of data shapes one render of the chart's data set draws
ShapeCount ==
    IF Grouped(ch.kind) THEN Len(ch.data) * Len(inferredKeys(ch.data)) ELSE Len(ch.data)

\* C20: update(newData) re-renders within the call; the group then holds the
\* shapes of one render of the current data and nothing of earlier renders, and
\* an update(d) that follows an update(d) with the same d leaves the same
\* domain and the same shapes.
C20_UpdateIdempotent ==
    [][(ch.kind # "none" /\ lastOp' = "update") =>
          /\ opDraws' = 1
          /\ lastDraw'.cause = "update"
          /\ Len(ch'.scene) = ShapeCount'
          /\ (lastOp = "update" /\ ch'.data = ch.data) =>
                /\ ch'.scene = ch.scene
                /\ ch'.vMin = ch.vMin /\ ch'.vMax = ch.vMax]_vars

\* update() replaced the data of a vertical bar chart by two rows and drew
\* their two rects, 336 px of inner width shared by two bands
C20_Witness ==
    /\ lastOp = "update" /\ opDraws = 1
    /\ ch.kind = "bar" /\ ch.orientation = "vertical"
    /\ ch.data = <<[label |-> "a", value |-> Num(5)], [label |-> "b", value |-> Num(2)]>>
    /\ Len(ch.scene) = 2
    /\ ch.scene[1].x = Rat(112, 5) /\ ch.scene[2].x = Rat(896, 5)
    /\ burstDraws = MaxCount

\* C28: in responsive mode the stored width is at least minWidth in every
\* reachable state, and so is the width of every render.
C28_StoredWidthAtLeastFloor ==
    responsive(opts) =>
        /\ currentWidth >= opts.minWidth
        /\ lastDraw.outerW >= opts.minWidth

\* C30: at most one debounce timer is pending at any time; a resize
\* notification that changes the stored width leaves exactly the timer it
\* scheduled pending, with the full delay; a timer that fires makes exactly one
\* render() invocation and is pending no longer.
C30_OneTimerPending ==
    [][/\ Cardinality(pending(timers')) <= 1
       /\ (lastOp' = "resize" /\ currentWidth' # currentWidth) =>
             /\ pending(timers') = {resizeTimer'}
             /\ timers'[resizeTimer'] = DebounceMs
       /\ lastOp' = "timer" =>
             /\ opDraws' = 1
             /\ Cardinality(pending(timers')) < Cardinality(pending(timers))]_vars

\* a second width change arrived while a timer was pending: still one timer
C30_Witness ==
    /\ lastOp = "resize" /\ burstNotes >= 2 /\ windowDraws = 0
    /\ Cardinality(pending(timers)) = 1 /\ timers[resizeTimer] = DebounceMs
    /\ sinceNotify = 0 /\ burst = "open"

\* the clamped value the i-th rect of a bar or grouped-bar chart stands for
BarValue(i) ==
    IF ch.kind = "bar" THEN MathMax(Num(0), ch.data[i].value)
    ELSE LET keys == inferredKeys(ch.data)
         IN  MathMax(Num(0), valueAt(ch.data[((i - 1) \div Len(keys)) + 1],
                                     keys[((i - 1) % Len(keys)) + 1]))

\* |scale(v) - scale(vMin)| on the value axis of the chart's orientation
ExtentFromAxisMin(v) ==
    LET rMin == IF ch.orientation = "vertical" THEN Num(lastDraw.innerHeight) ELSE Num(0)
        rMax == IF ch.orientation = "vertical" THEN Num(0) ELSE Num(lastDraw.innerWidth)
    IN  MathAbs(RSub(linearScale(ch.vMin, ch.vMax, rMin, rMax, v),
                     linearScale(ch.vMin, ch.vMax, rMin, rMax, ch.vMin)))

\* C27: in a vertical and in a horizontal bar or grouped-bar chart alike, for
\* finite data, a domain with vMin < vMax, values not below vMin and
\* non-negative inner sizes, the extent of a rect along the value axis is
\* |scale(value) - scale(vMin)|: bars are measured from the axis minimum.
C27_BarsMeasuredFromAxisMin ==
    (/\ ch.kind \in {"bar", "barGroup"}
     /\ FiniteData /\ RLess(ch.vMin, ch.vMax)
     /\ lastDraw.innerWidth >= 0 /\ lastDraw.innerHeight >= 0) =>
        \A i \in 1..Len(ch.scene) :
            RLeq(ch.vMin, BarValue(i)) =>
                (IF ch.orientation = "vertical" THEN ch.scene[i].height
                 ELSE ch.scene[i].width) = ExtentFromAxisMin(BarValue(i))

\* the number of elements of one kind in a container, at either depth
countEl(children, kind) ==
    Cardinality({i \in 1..Len(children) : children[i].el = kind})
    + Cardinality({p \in (1..Len(children)) \X (1..2) :
                     /\ p[2] <= Len(children[p[1]].kids)
                     /\ children[p[1]].kids[p[2]] = kind})

\* C26: constructing a chart wrapper on a container removes only the svg
\* elements already in it: the container stays in the document and every
\* element that is not an svg (a tooltip, a note beside an old svg, the div
\* around an old svg) is still in it after construction.
C26_OnlySvgsRemoved ==
    mt.phase = "after" =>
        /\ mt.attached
        /\ \A kind \in {"tooltip", "note", "box"} :
             countEl(mt.children, kind) = countEl(mt.before, kind)

\* the records of a pie data set that carry a finite value above zero
positives(data) == SelectSeq(data, LAMBDA d : IsFinite(d.value) /\ RLess(Num(0), d.value))

C23_SlicesArePositiveRecords ==
    pie.kind = "pie" =>
        LET pos == positives(pie.data)
            n == Len(pos)
            total == sumValues(pos, n)
        IN  IF n = 0
            THEN \A i \in 1..Len(pie.svg) : pie.svg[i].cls # "pie-slice"
            ELSE /\ Len(pie.svg) = n
                 /\ \A i \in 1..n :
                       /\ pie.svg[i].cls = "pie-slice"
                       /\ pie.svg[i].label = pos[i].label
                       /\ RLess(pie.svg[i].start, pie.svg[i].end)
                       /\ StrictEq(RSub(pie.svg[i].end, pie.svg[i].start),
                                   RDiv(pos[i].value, total))
                 /\ StrictEq(pie.svg[1].start, Rat(-1, 4))
                 /\ \A i \in 1..(n - 1) : StrictEq(pie.svg[i + 1].start, pie.svg[i].end)
                 /\ StrictEq(pie.svg[n].end, Rat(3, 4))
                 /\ (n = 1 => StrictEq(RSub(pie.svg[1].end, pie.svg[1].start), Num(1)))

C23_Witness ==
    /\ pie.kind = "pie"
    /\ Len(pie.data) = 2 /\ pie.data[1].value = Num(0) /\ pie.data[2].value = Num(50)
    /\ Len(pie.svg) = 1 /\ pie.svg[1].label = pie.data[2].label
    /\ pie.svg[1].start = Rat(-1, 4) /\ pie.svg[1].end = Rat(3, 4)

\* C24 as stated: the inner radius is never negative and never exceeds the
\* outer radius less 2.
C24_InnerAtMostOuterLessTwo ==
    pie.kind = "pie" =>
        /\ RLeq(Num(0), pie.innerR)
        /\ RLeq(pie.innerR, RSub(pie.radius, Num(2)))

\* C24: for every innerRadiusRatio and every outer radius the inner radius is
\* never negative, never exceeds the outer radius times the ratio clamped to
\* [0, 0.95], and never exceeds the outer radius less 2 when the outer radius
\* is at least 2; for a smaller outer radius it is 0.
C24_InnerRadiusBounded ==
    pie.kind = "pie" =>
        LET ratio == pie.innerRadiusRatio
            clamped == IF RLess(ratio, Num(0)) THEN Num(0)
                       ELSE IF RLess(Rat(19, 20), ratio) THEN Rat(19, 20) ELSE ratio
        IN  /\ RLeq(Num(0), pie.innerR)
            /\ IF RLeq(Num(2), pie.radius)
               THEN /\ RLeq(pie.innerR, RSub(pie.radius, Num(2)))
                    /\ RLeq(pie.innerR, RMul(pie.radius, clamped))
                    /\ \/ pie.innerR = RSub(pie.radius, Num(2))
                       \/ pie.innerR = RMul(pie.radius, clamped)
               ELSE pie.innerR = Num(0)

C24_Witness ==
    /\ pie.kind = "pie" /\ pie.innerRadiusRatio = Rat(3, 2)
    /\ pie.radius = Num(165) /\ pie.innerR = Rat(627, 4)

\* C25: a burst of width-changing notifications to a responsive pie chart
\* produces a single re-render, not one per notification.
C25_PieBurstDrawsOnce ==
    (pie.kind = "pie" /\ pie.run >= 2) => pie.runDraws <= 1

\* the legend elements a container holds
legendsIn(container) == {i \in 1..Len(container) : container[i].el = "legend"}

\* exactly one legend, directly before the element wrapping the svg, when the
\* render's test of legend.show passes; no legend otherwise
legendPlaced(container, l) ==
    IF legendShown(l)
    THEN /\ Cardinality(legendsIn(container)) = 1
         /\ \A i \in legendsIn(container) :
               i < Len(container) /\ container[i + 1].el = "wrapper"
    ELSE legendsIn(container) = {}

\* C22: the legend is shown by default: every render leaves a legend in the
\* container unless legend.show is given as false, also when the legend
\* option carries only a position.
C22_LegendShownByDefault ==
    /\ (Grouped(ch.kind) /\ ~destroyed /\ ~(ch.legend.hasShow /\ ~ch.legend.show)) =>
          legendsIn(ch.container) # {}
    /\ (pie.kind = "pie" /\ ~pie.destroyed /\ ~(pie.legend.hasShow /\ ~pie.legend.show)) =>
          legendsIn(pie.container) # {}

\* C29: after any sequence of initial render, update() calls and
\* resize-driven re-renders of a grouped-bar, grouped-line or pie chart, the
\* container holds exactly one legend element when the legend is shown and
\* none otherwise, and the legend sits before the element wrapping the svg.
C29_OneLegendBeforeWrapper ==
    /\ (Grouped(ch.kind) /\ ~destroyed) => legendPlaced(ch.container, ch.legend)
    /\ (pie.kind = "pie" /\ ~pie.destroyed) => legendPlaced(pie.container, pie.legend)

C29_Witness ==
    /\ ch.kind = "barGroup" /\ ~destroyed /\ lastOp = "timer"
    /\ legendShown(ch.legend)
    /\ ch.container = <<TooltipEl, renderLegend(<<"s", "t">>, "right"), WrapperEl>>

====
